---- MODULE Spec2Model ----
(***************************************************************************)
(* Model of the BidGenius dashboard backend (src/app.py): the Flask route  *)
(* handlers, the interview-question sanitizer inside generate_application  *)
(* and the RSS aggregation of get_remote_jobs.                             *)
(*                                                                         *)
(* Text is a sequence of one-character strings, so that strip, startswith, *)
(* find, split and json.loads are computed character by character.         *)
(***************************************************************************)
EXTENDS Integers, Sequences, FiniteSets, TLC

VARIABLES GEMINI_API_KEY, pc, route, resume, calls, replies, cover_letter,
          questions_text, questions_list, qa_pairs, response, escaped,
          in_shape, in_fence, in_close, in_items, source, feeds

vars == <<GEMINI_API_KEY, pc, route, resume, calls, replies, cover_letter,
          questions_text, questions_list, qa_pairs, response, escaped,
          in_shape, in_fence, in_close, in_items, source, feeds>>

(***************************************************************************)
(* Bounds of the explored inputs.                                          *)
(***************************************************************************)
\* longest list of entries in a generated questions response (sanitizer runs)
MaxItems == 4

(***************************************************************************)
(* Python str methods used by the handlers.                                *)
(***************************************************************************)
\* characters str.strip() with no argument removes
Whitespace == {" ", "\n", "\t", "\r"}

\* the argument of line.strip('- 0123456789."\'')
MarkerChars == {"-", " ", "0", "1", "2", "3", "4", "5", "6", "7", "8", "9", ".", "\"", "'"}

\* the grave accent U+0060 of a markdown fence, written by name: SANY reads
\* the character itself as the start of a quoted token
Backtick == "GRAVE"

Digits == {"0", "1", "2", "3", "4", "5", "6", "7", "8", "9"}

\* s[a:b] with 0 <= a, b <= len(s), Python half-open 0-based slice
Slice(s, a, b) == SubSeq(s, a + 1, b)

\* index (1-based) of the first character of s outside set, Len(s)+1 if none
FirstOutside(s, set) ==
    IF \A i \in 1..Len(s) : s[i] \in set
    THEN Len(s) + 1
    ELSE CHOOSE i \in 1..Len(s) : s[i] \notin set /\ \A j \in 1..(i - 1) : s[j] \in set

\* index (1-based) of the last character of s outside set, 0 if none
LastOutside(s, set) ==
    IF \A i \in 1..Len(s) : s[i] \in set
    THEN 0
    ELSE CHOOSE i \in 1..Len(s) : s[i] \notin set /\ \A j \in (i + 1)..Len(s) : s[j] \in set

\* s.strip(chars)
StripChars(s, set) == SubSeq(s, FirstOutside(s, set), LastOutside(s, set))

\* s.strip()
Strip(s) == StripChars(s, Whitespace)

\* s.startswith(p)
StartsWith(s, p) == Len(s) >= Len(p) /\ SubSeq(s, 1, Len(p)) = p

\* s.endswith(p)
EndsWith(s, p) == Len(s) >= Len(p) /\ SubSeq(s, Len(s) - Len(p) + 1, Len(s)) = p

\* s.find(c) for a single character c: 0-based index of its first occurrence, -1 if absent
Find(s, c) ==
    IF \E i \in 1..Len(s) : s[i] = c
    THEN (CHOOSE i \in 1..Len(s) : s[i] = c /\ \A j \in 1..(i - 1) : s[j] # c) - 1
    ELSE -1

RECURSIVE Split(_, _)
\* s.split(c) for a single character c
Split(s, c) ==
    LET k == Find(s, c)
    IN  IF k = -1 THEN <<s>>
        ELSE <<Slice(s, 0, k)>> \o Split(Slice(s, k + 1, Len(s)), c)

\* str.lower() on one character
LowerChar(c) ==
    CASE c = "A" -> "a" [] c = "B" -> "b" [] c = "C" -> "c" [] c = "D" -> "d"
      [] c = "E" -> "e" [] c = "F" -> "f" [] c = "G" -> "g" [] c = "H" -> "h"
      [] c = "I" -> "i" [] c = "J" -> "j" [] c = "K" -> "k" [] c = "L" -> "l"
      [] c = "M" -> "m" [] c = "N" -> "n" [] c = "O" -> "o" [] c = "P" -> "p"
      [] c = "Q" -> "q" [] c = "R" -> "r" [] c = "S" -> "s" [] c = "T" -> "t"
      [] c = "U" -> "u" [] c = "V" -> "v" [] c = "W" -> "w" [] c = "X" -> "x"
      [] c = "Y" -> "y" [] c = "Z" -> "z" [] OTHER -> c

\* s.lower()
Lower(s) == [i \in 1..Len(s) |-> LowerChar(s[i])]

(***************************************************************************)
(* json.loads restricted to what a questions response can hold here: an    *)
(* array of string literals (no escapes) and unsigned integers, separated  *)
(* by commas and JSON whitespace.  Anything else is a JSONDecodeError.     *)
(***************************************************************************)
JsonFail == [ok |-> FALSE, val |-> <<>>, next |-> 0]

RECURSIVE SkipWs(_, _)
\* the position of the first non-whitespace character at or after pos
SkipWs(t, pos) ==
    IF pos <= Len(t) /\ t[pos] \in Whitespace THEN SkipWs(t, pos + 1) ELSE pos

RECURSIVE ScanString(_, _)
\* the position of the quote closing a string literal whose body starts at
\* pos; 0 when the literal is unterminated or holds a control character
ScanString(t, pos) ==
    IF pos > Len(t) THEN 0
    ELSE IF t[pos] = "\"" THEN pos
    ELSE IF t[pos] \in {"\n", "\t", "\r", "\\"} THEN 0
    ELSE ScanString(t, pos + 1)

RECURSIVE ScanDigits(_, _)
\* the position after the run of digits starting at pos
ScanDigits(t, pos) ==
    IF pos <= Len(t) /\ t[pos] \in Digits THEN ScanDigits(t, pos + 1) ELSE pos

\* one JSON value at pos: a string (isinstance(q, str)) or a number
JsonValue(t, pos) ==
    IF pos > Len(t) THEN JsonFail
    ELSE IF t[pos] = "\""
    THEN LET close == ScanString(t, pos + 1)
         IN  IF close = 0 THEN JsonFail
             ELSE [ok |-> TRUE,
                   val |-> [isstr |-> TRUE, text |-> SubSeq(t, pos + 1, close - 1)],
                   next |-> close + 1]
    ELSE IF t[pos] \in Digits
    THEN LET end == ScanDigits(t, pos)
         IN  IF t[pos] = "0" /\ end > pos + 1 THEN JsonFail
             ELSE [ok |-> TRUE,
                   val |-> [isstr |-> FALSE, text |-> SubSeq(t, pos, end - 1)],
                   next |-> end]
    ELSE JsonFail

RECURSIVE JsonElements(_, _, _)
\* the elements of an array from pos on, up to the closing bracket, after
\* which only whitespace may follow
JsonElements(t, pos, acc) ==
    LET v == JsonValue(t, SkipWs(t, pos))
    IN  IF ~v.ok THEN JsonFail
        ELSE LET q == SkipWs(t, v.next)
             IN  IF q > Len(t) THEN JsonFail
                 ELSE IF t[q] = "," THEN JsonElements(t, q + 1, Append(acc, v.val))
                 ELSE IF t[q] = "]" /\ SkipWs(t, q + 1) > Len(t)
                      THEN [ok |-> TRUE, val |-> Append(acc, v.val), next |-> q + 1]
                 ELSE JsonFail

\* json.loads(t) for a text that starts with "[": ok = FALSE is the raised
\* JSONDecodeError
JsonLoads(t) ==
    LET p == SkipWs(t, 2)
    IN  IF Len(t) = 0 \/ t[1] # "[" THEN JsonFail
        ELSE IF p <= Len(t) /\ t[p] = "]"
             THEN IF SkipWs(t, p + 1) > Len(t)
                  THEN [ok |-> TRUE, val |-> <<>>, next |-> p + 1]
                  ELSE JsonFail
        ELSE JsonElements(t, 2, <<>>)

(***************************************************************************)
(* The question sanitizer of generate_application.                         *)
(***************************************************************************)
\* len(...) > 10: a question must be longer than this
MinQuestionLen == 10

\* len(questions_list) < 3 raises "Insufficient valid questions parsed"
MinQuestions == 3

\* questions_list[:5]
MaxQuestions == 5

\* the markdown code fence
Fence == <<Backtick, Backtick, Backtick>>

\* the questions substituted when parsing fails
FallbackQuestions ==
    << <<"T", "e", "l", "l", " ", "m", "e", " ", "a", "b", "o", "u", "t", " ", "y", "o", "u", "r", " ", "r", "e", "l", "e", "v", "a", "n", "t", " ", "e", "x", "p", "e", "r", "i", "e", "n", "c", "e", " ", "f", "o", "r", " ", "t", "h", "i", "s", " ", "r", "o", "l", "e", ".">>,
       <<"W", "h", "a", "t", " ", "i", "n", "t", "e", "r", "e", "s", "t", "s", " ", "y", "o", "u", " ", "a", "b", "o", "u", "t", " ", "t", "h", "i", "s", " ", "p", "o", "s", "i", "t", "i", "o", "n", "?">>,
       <<"D", "e", "s", "c", "r", "i", "b", "e", " ", "a", " ", "c", "h", "a", "l", "l", "e", "n", "g", "i", "n", "g", " ", "p", "r", "o", "j", "e", "c", "t", " ", "y", "o", "u", "'", "v", "e", " ", "w", "o", "r", "k", "e", "d", " ", "o", "n", ".">>,
       <<"W", "h", "a", "t", " ", "a", "r", "e", " ", "y", "o", "u", "r", " ", "s", "a", "l", "a", "r", "y", " ", "e", "x", "p", "e", "c", "t", "a", "t", "i", "o", "n", "s", "?">>,
       <<"W", "h", "e", "r", "e", " ", "d", "o", " ", "y", "o", "u", " ", "s", "e", "e", " ", "y", "o", "u", "r", "s", "e", "l", "f", " ", "i", "n", " ", "3", " ", "y", "e", "a", "r", "s", "?">> >>

\* questions_text after .strip() and the removal of markdown code fences
RemoveFences(text) ==
    LET t0 == Strip(text)
    IN  IF StartsWith(t0, Fence)
        THEN LET first_newline == Find(t0, "\n")
                 t1 == IF first_newline # -1
                       THEN Slice(t0, first_newline + 1, Len(t0))
                       ELSE t0
                 t2 == IF EndsWith(t1, Fence) THEN Slice(t1, 0, Len(t1) - 3) ELSE t1
             IN  Strip(t2)
        ELSE t0

\* variant of KeepJsonQuestions that neither strips the entries nor measures
\* them stripped
KeepJsonQuestions_NoStrip(parsed) ==
    LET kept == SelectSeq(parsed, LAMBDA q : q.isstr /\ Len(q.text) > MinQuestionLen)
    IN  [i \in 1..Len(kept) |-> kept[i].text]

\* [q.strip() for q in parsed_questions if isinstance(q, str) and len(q.strip()) > 10]
KeepJsonQuestions(parsed) ==
    LET stripped == [i \in 1..Len(parsed) |->
                        [isstr |-> parsed[i].isstr, text |-> Strip(parsed[i].text)]]
        kept == SelectSeq(stripped, LAMBDA q : q.isstr /\ Len(q.text) > MinQuestionLen)
    IN  [i \in 1..Len(kept) |-> kept[i].text]

\* the line-by-line branch: strip the marker characters from both ends of
\* every line, keep lines longer than 10 that do not start with "json"
KeepLineQuestions(text) ==
    LET raw == Split(text, "\n")
        lines == [i \in 1..Len(raw) |-> StripChars(raw[i], MarkerChars)]
    IN  SelectSeq(lines, LAMBDA q : Len(q) > 0 /\ Len(q) > MinQuestionLen
                                    /\ ~StartsWith(Lower(q), <<"j", "s", "o", "n">>))

\* variant of ParseQuestions that falls through to the line-by-line branch
\* when json.loads fails
ParseQuestions_LineFallback(text) ==
    LET t == RemoveFences(text)
        parsed == JsonLoads(t)
        list == IF StartsWith(t, <<"[">>) /\ EndsWith(t, <<"]">>) /\ parsed.ok
                THEN KeepJsonQuestions(parsed.val)
                ELSE KeepLineQuestions(t)
    IN  IF Len(list) < MinQuestions
        THEN [ok |-> FALSE, list |-> <<>>]
        ELSE [ok |-> TRUE, list |-> list]

\* the body of the try block: ok = FALSE when an exception is raised
\* (JSONDecodeError, or the ValueError for too few questions)
ParseQuestions(text) ==
    LET t == RemoveFences(text)
        candidate ==
            IF StartsWith(t, <<"[">>) /\ EndsWith(t, <<"]">>)
            THEN LET parsed == JsonLoads(t)
                 IN  IF parsed.ok
                     THEN [ok |-> TRUE, list |-> KeepJsonQuestions(parsed.val)]
                     ELSE [ok |-> FALSE, list |-> <<>>]
            ELSE [ok |-> TRUE, list |-> KeepLineQuestions(t)]
    IN  IF candidate.ok /\ (Len(candidate.list) = 0 \/ Len(candidate.list) < MinQuestions)
        THEN [ok |-> FALSE, list |-> <<>>]
        ELSE candidate

\* questions_list after the try/except: the parsed questions, or the
\* fallback questions when the try block raised
SanitizeQuestions(text) ==
    LET r == ParseQuestions(text)
    IN  IF r.ok THEN r.list ELSE FallbackQuestions

(***************************************************************************)
(* The texts a questions response is drawn from: a list of entries written *)
(* as a JSON array, as an array with trailing commas (not valid JSON) or   *)
(* as a numbered list, with or without markdown fences around it.          *)
(***************************************************************************)
Str(s) == [isstr |-> TRUE, text |-> s]

Num(s) == [isstr |-> FALSE, text |-> s]

\* the entries a generated response is built from
SampleItems ==
    << Str(<<"W", "h", "y", " ", "t", "h", "i", "s", " ", "r", "o", "l", "e", "?">>),
       Str(<<" ", " ", "T", "e", "l", "l", " ", "u", "s", " ", "m", "o", "r", "e", " ", " ">>),
       Str(<<" ", " ", " ", "H", "i", " ", "t", "h", "e", "r", "e", " ", " ", " ">>),
       Str(<<"J", "S", "O", "N", " ", "o", "r", " ", "X", "M", "L", " ", "u", "s", "e", "?">>),
       Num(<<"4", "2">>) >>

Shapes == {"array", "badarray", "lines"}

Fences == {"none", "json", "plain"}

\* an entry as a JSON literal
JsonLiteral(v) == IF v.isstr THEN <<"\"">> \o v.text \o <<"\"">> ELSE v.text

\* the decimal digit of i, 0 <= i <= 9
DigitOf(i) == <<"0", "1", "2", "3", "4", "5", "6", "7", "8", "9">>[i + 1]

RECURSIVE Join(_, _)
\* sep.join(parts)
Join(parts, sep) ==
    IF Len(parts) = 0 THEN <<>>
    ELSE IF Len(parts) = 1 THEN parts[1]
    ELSE parts[1] \o sep \o Join(Tail(parts), sep)

\* the body of a response of the given shape holding items
RenderBody(shape, items) ==
    CASE shape = "array" ->
            <<"[">> \o Join([i \in 1..Len(items) |-> JsonLiteral(items[i])], <<",", " ">>) \o <<"]">>
      [] shape = "badarray" ->
            <<"[", "\n">> \o Join([i \in 1..Len(items) |-> JsonLiteral(items[i]) \o <<",", "\n">>], <<>>)
                   \o <<"]">>
      [] shape = "lines" ->
            Join([i \in 1..Len(items) |->
                     <<DigitOf(i % 10)>> \o <<".", " ">> \o items[i].text], <<"\n">>)

\* the text of a response: the body inside the chosen fences
RenderResponse(shape, fence, close, items) ==
    (CASE fence = "json" -> <<Backtick, Backtick, Backtick, "j", "s", "o", "n", "\n">>
       [] fence = "plain" -> <<Backtick, Backtick, Backtick, "\n">>
       [] OTHER -> <<>>)
    \o RenderBody(shape, items)
    \o (IF close THEN <<"\n", Backtick, Backtick, Backtick>> ELSE <<>>)
    \o <<"\n">>

\* all lists of entries of at most n sample entries
ItemLists(n) ==
    UNION {[1..k -> {SampleItems[i] : i \in 1..Len(SampleItems)}] : k \in 0..n}

(***************************************************************************)
(* Sanitizer runs: the sanitizer applied to one generated response.        *)
(***************************************************************************)
\* no response has been produced
NoResponse == [status |-> 0, body |-> [kind |-> "none"]]

Idle ==
    /\ route = "none"
    /\ resume = <<>>
    /\ calls = <<>>
    /\ replies = <<>>
    /\ cover_letter = <<>>
    /\ questions_list = <<>>
    /\ qa_pairs = <<>>
    /\ response = NoResponse
    /\ escaped = FALSE
    /\ source = "none"
    /\ feeds = <<>>

InitSanitizer ==
    /\ Idle
    /\ GEMINI_API_KEY = TRUE
    /\ pc = "parse"
    /\ in_shape \in Shapes
    /\ in_fence \in Fences
    /\ in_close \in (IF in_fence = "none" THEN {FALSE} ELSE BOOLEAN)
    /\ in_items \in ItemLists(MaxItems)
    /\ questions_text = RenderResponse(in_shape, in_fence, in_close, in_items)

\* lines 156-199 applied to questions_text
Sanitize ==
    /\ pc = "parse"
    /\ questions_list' = SanitizeQuestions(questions_text)
    /\ pc' = "parsed"
    /\ UNCHANGED <<GEMINI_API_KEY, route, resume, calls, replies, cover_letter, questions_text,
                   qa_pairs, response, escaped, in_shape, in_fence, in_close,
                   in_items, source, feeds>>

NextSanitizer == Sanitize

SpecSanitizer == InitSanitizer /\ [][NextSanitizer]_vars

(***************************************************************************)
(* The AI adapter: model.generate_content(prompt) either raises a provider *)
(* error or returns a response whose text may be empty (no usable text),   *)
(* whitespace only, or a real text.                                        *)
(***************************************************************************)
Raised == [raises |-> TRUE, text |-> <<>>]

Returned(t) == [raises |-> FALSE, text |-> t]

\* the texts a cover-letter, proposal or answer call returns
ReplyTexts == { <<>>, <<" ", " ", "\n">>, <<"I", " ", "h", "a", "v", "e", " ", "l", "e", "d", " ", "t", "e", "a", "m", "s", ".", "\n">> }

AiOutcomes == {Raised} \cup {Returned(t) : t \in ReplyTexts}

\* not response or not hasattr(response, 'text') or not response.text
NoText(o) == o.text = <<>>

\* the answer used when an answer call returns no text
FallbackAnswer ==
    <<"B", "a", "s", "e", "d", " ", "o", "n", " ", "m", "y", " ", "e", "x", "p", "e", "r", "i", "e", "n", "c", "e", " ", "o", "u", "t", "l", "i", "n", "e", "d", " ", "i", "n", " ", "m", "y", " ", "r", "e", "s", "u", "m", "e", ",", " ", "I", " ", "h", "a", "v", "e", " ", "t", "h", "e", " ", "r", "e", "l", "e", "v", "a", "n", "t", " ", "s", "k", "i", "l", "l", "s", " ", "a", "n", "d", " ", "b", "a", "c", "k", "g", "r", "o", "u", "n", "d", " ", "f", "o", "r", " ", "t", "h", "i", "s", " ", "a", "s", "p", "e", "c", "t", " ", "o", "f", " ", "t", "h", "e", " ", "r", "o", "l", "e", ".">>

\* a prompt is its template and the values substituted into it
Prompt(kind, question) == [kind |-> kind, question |-> question]

\* jsonify({'error': msg}), status
ErrorResponse(status, msg) == [status |-> status, body |-> [kind |-> "error", error |-> msg]]

\* the request bodies: valid JSON or a body request.json / data.get fails on
Bodies == {"json", "malformed"}

\* the resume texts of a request
Resumes == { <<>>, <<"T", "e", "n", " ", "y", "e", "a", "r", "s", " ", "o", "f", " ", "P", "y", "t", "h", "o", "n", ".">> }

(***************************************************************************)
(* GET /                                                                   *)
(***************************************************************************)
\* index(): no try/except; a missing or invalid data/jobs.json raises out
\* of the handler
Index ==
    /\ pc = "idle"
    /\ \E file \in {"ok", "missing", "invalid"} :
          /\ route' = "index"
          /\ pc' = "done"
          /\ IF file = "ok"
             THEN /\ response' = [status |-> 200, body |-> [kind |-> "html"]]
                  /\ escaped' = FALSE
             ELSE /\ response' = NoResponse
                  /\ escaped' = TRUE
    /\ UNCHANGED <<GEMINI_API_KEY, resume, calls, replies, cover_letter, questions_text,
                   questions_list, qa_pairs, in_shape, in_fence, in_close,
                   in_items, source, feeds>>

(***************************************************************************)
(* POST /api/generate-proposal                                             *)
(***************************************************************************)
KeyMissing == "GEMINI_API_KEY not configured. Please add your API key to the .env file."

\* the response of generate_proposal for a body and the adapter's outcome
ProposalResponse(body, o) ==
    IF ~GEMINI_API_KEY THEN ErrorResponse(400, KeyMissing)
    ELSE IF body = "malformed" THEN ErrorResponse(500, "Error generating proposal")
    ELSE IF o.raises THEN ErrorResponse(500, "Error generating proposal")
    ELSE IF NoText(o) THEN ErrorResponse(400, "Gemini API returned empty response")
    ELSE [status |-> 200, body |-> [kind |-> "proposal", proposal |-> o.text, success |-> TRUE]]

\* whether generate_proposal reaches model.generate_content
ProposalCalls(body) == GEMINI_API_KEY /\ body = "json"

GenerateProposal ==
    /\ pc = "idle"
    /\ \E body \in Bodies, o \in AiOutcomes :
          /\ route' = "proposal"
          /\ calls' = IF ProposalCalls(body)
                      THEN Append(calls, Prompt("proposal", <<>>))
                      ELSE calls
          /\ replies' = IF ProposalCalls(body) THEN Append(replies, o) ELSE replies
          /\ response' = ProposalResponse(body, o)
          /\ pc' = "done"
    /\ UNCHANGED <<GEMINI_API_KEY, resume, cover_letter, questions_text,
                   questions_list, qa_pairs, escaped, in_shape, in_fence, in_close,
                   in_items, source, feeds>>

(***************************************************************************)
(* POST /api/generate-application                                          *)
(***************************************************************************)
\* variant of ApplicationChecks without the API-key check
ApplicationChecks_NoKeyCheck(body, r) ==
    IF body = "malformed" THEN ErrorResponse(500, "Error generating application")
    ELSE IF r = <<>> THEN ErrorResponse(400, "Resume text is required")
    ELSE NoResponse

\* variant of ApplicationChecks without the resume check
ApplicationChecks_NoResumeCheck(body, r) ==
    IF ~GEMINI_API_KEY THEN ErrorResponse(400, KeyMissing)
    ELSE IF body = "malformed" THEN ErrorResponse(500, "Error generating application")
    ELSE NoResponse

\* the outcome of the checks before the first call: NoResponse when the
\* handler goes on, else the error response
ApplicationChecks(body, r) ==
    IF ~GEMINI_API_KEY THEN ErrorResponse(400, KeyMissing)
    ELSE IF body = "malformed" THEN ErrorResponse(500, "Error generating application")
    ELSE IF r = <<>> THEN ErrorResponse(400, "Resume text is required")
    ELSE NoResponse

\* lines 84-135: key check, request body, resume check, prompt building
AppValidate ==
    /\ pc = "idle"
    /\ \E body \in Bodies, r \in Resumes :
          LET checked == ApplicationChecks(body, r)
          IN  /\ route' = "application"
              /\ response' = checked
              /\ resume' = IF checked = NoResponse THEN r ELSE resume
              /\ pc' = IF checked = NoResponse THEN "cover" ELSE "done"
    /\ UNCHANGED <<GEMINI_API_KEY, calls, replies, cover_letter, questions_text,
                   questions_list, qa_pairs, escaped, in_shape, in_fence, in_close,
                   in_items, source, feeds>>

\* the response after a cover-letter call, NoResponse when the handler goes on
CoverResponse(o) ==
    IF o.raises THEN ErrorResponse(500, "Error generating application")
    ELSE IF NoText(o) THEN ErrorResponse(400, "Failed to generate cover letter")
    ELSE NoResponse

\* lines 137-146: the cover-letter call
AppCover ==
    /\ pc = "cover"
    /\ \E o \in AiOutcomes :
          /\ calls' = Append(calls, Prompt("cover", <<>>))
          /\ replies' = Append(replies, o)
          /\ response' = CoverResponse(o)
          /\ cover_letter' = IF CoverResponse(o) = NoResponse THEN o.text ELSE cover_letter
          /\ pc' = IF CoverResponse(o) = NoResponse THEN "questions" ELSE "done"
    /\ UNCHANGED <<GEMINI_API_KEY, route, resume, questions_text,
                   questions_list, qa_pairs, escaped, in_shape, in_fence, in_close,
                   in_items, source, feeds>>

\* longest list of entries in the questions response of an application request
MaxAppItems == 6

\* the entries a questions response of an application request is built from
AppItems == { Str(<<"W", "h", "y", " ", "t", "h", "i", "s", " ", "r", "o", "l", "e", "?">>), Str(<<"Y", "o", "u", "r", " ", "b", "e", "s", "t", " ", "w", "o", "r", "k", "?">>) }

\* the shapes and fences of those responses
AppFormats == { [shape |-> "array", fence |-> "json", close |-> TRUE],
                [shape |-> "lines", fence |-> "none", close |-> FALSE] }

\* the response after a questions call, NoResponse when the handler goes on
QuestionsResponse(o) ==
    IF o.raises THEN ErrorResponse(500, "Error generating application")
    ELSE IF NoText(o) THEN ErrorResponse(400, "Failed to generate interview questions")
    ELSE NoResponse

\* lines 149-199: the questions call and the sanitizer
AppQuestions ==
    /\ pc = "questions"
    /\ calls' = Append(calls, Prompt("questions", <<>>))
    /\ \/ \E o \in {Raised, Returned(<<>>)} :
             /\ replies' = Append(replies, o)
             /\ response' = QuestionsResponse(o)
             /\ pc' = "done"
             /\ UNCHANGED <<questions_text, questions_list, in_shape, in_fence,
                            in_close, in_items>>
       \/ \E f \in AppFormats, k \in 0..MaxAppItems : \E items \in [1..k -> AppItems] :
             LET o == Returned(RenderResponse(f.shape, f.fence, f.close, items))
             IN  /\ in_shape' = f.shape
                 /\ in_fence' = f.fence
                 /\ in_close' = f.close
                 /\ in_items' = items
                 /\ replies' = Append(replies, o)
                 /\ questions_text' = o.text
                 /\ questions_list' = SanitizeQuestions(o.text)
                 /\ response' = QuestionsResponse(o)
                 /\ pc' = "answers"
    /\ UNCHANGED <<GEMINI_API_KEY, route, resume, cover_letter, qa_pairs, escaped,
                   source, feeds>>

\* questions_list[:5]
Capped(list) == SubSeq(list, 1, IF Len(list) < MaxQuestions THEN Len(list) ELSE MaxQuestions)

\* the answer stored for an answer call that returned
AnswerOf(o) == IF ~NoText(o) THEN Strip(o.text) ELSE FallbackAnswer

\* lines 203-234: one iteration of the answer loop, and the success response
\* after the last one
AppAnswer ==
    /\ pc = "answers"
    /\ LET i == Len(qa_pairs) + 1
           question == Capped(questions_list)[i]
       IN  \E o \in AiOutcomes :
              /\ calls' = Append(calls, Prompt("answer", question))
              /\ replies' = Append(replies, o)
              /\ IF o.raises
                 THEN /\ qa_pairs' = qa_pairs
                      /\ response' = ErrorResponse(500, "Error generating application")
                      /\ pc' = "done"
                 ELSE LET pairs == Append(qa_pairs, [question |-> question, answer |-> AnswerOf(o)])
                      IN  /\ qa_pairs' = pairs
                          /\ IF i = Len(Capped(questions_list))
                             THEN /\ response' = [status |-> 200,
                                                  body |-> [kind |-> "application",
                                                            success |-> TRUE,
                                                            cover_letter |-> cover_letter,
                                                            questions |-> pairs]]
                                  /\ pc' = "done"
                             ELSE /\ response' = response
                                  /\ pc' = pc
    /\ UNCHANGED <<GEMINI_API_KEY, route, resume, cover_letter, questions_text,
                   questions_list, escaped, in_shape, in_fence, in_close,
                   in_items, source, feeds>>

(***************************************************************************)
(* GET /callback                                                           *)
(***************************************************************************)
\* oauth_callback(): 400 without a code, a redirect to / with one
OauthCallback ==
    /\ pc = "idle"
    /\ \E code \in {"absent", "empty", "given"} :
          /\ route' = "callback"
          /\ response' = IF code = "given"
                         THEN [status |-> 302, body |-> [kind |-> "redirect", location |-> "/"]]
                         ELSE [status |-> 400,
                               body |-> [kind |-> "error", error |-> "Missing authorization code"]]
          /\ pc' = "done"
    /\ UNCHANGED <<GEMINI_API_KEY, resume, calls, replies, cover_letter, questions_text,
                   questions_list, qa_pairs, escaped, in_shape, in_fence, in_close,
                   in_items, source, feeds>>

(***************************************************************************)
(* GET /api/jobs                                                           *)
(*                                                                         *)
(* A feed is what feedparser.parse gives for one source: it raises, or it  *)
(* holds entries.  An entry carries its link and its published_parsed      *)
(* value: absent, a time datetime() accepts, or one it rejects.  The       *)
(* title, summary and job-type fields of a job do not influence which jobs *)
(* are returned or their order and are left out.                           *)
(***************************************************************************)
\* feed.entries[:15]
FeedLimit == 15

\* longest feed explored
MaxEntries == 2

\* published_parsed[:6] values: year, month, day, hour, minute, second
SampleDates == { <<2024, 9, 5, 8, 0, 0>>, <<2024, 10, 5, 8, 0, 0>>, <<987, 12, 31, 23, 59, 59>> }

\* entry without published_parsed
NoDate == <<>>

\* a published_parsed that datetime() rejects with ValueError (second = 61)
BadDate == <<2024, 10, 5, 8, 0, 61>>

EntryDates == SampleDates \cup {NoDate, BadDate}

\* the feed of a source that is not requested
NotFetched == [raises |-> FALSE, entries |-> <<>>]

Feeds ==
    {[raises |-> TRUE, entries |-> <<>>]}
    \cup {[raises |-> FALSE, entries |-> e] :
             e \in UNION {[1..k -> EntryDates] : k \in 0..MaxEntries}}

\* n written in decimal with at least width digits ('%04d', '%02d')
RECURSIVE ZeroPad(_, _)
ZeroPad(n, width) ==
    IF n < 10 /\ width <= 1 THEN <<DigitOf(n)>>
    ELSE ZeroPad(n \div 10, width - 1) \o <<DigitOf(n % 10)>>

\* variant of IsoFormat without zero padding
IsoFormat_Unpadded(d) ==
    ZeroPad(d[1], 1) \o <<"-">> \o ZeroPad(d[2], 1) \o <<"-">> \o ZeroPad(d[3], 1) \o <<"T">>
    \o ZeroPad(d[4], 1) \o <<":">> \o ZeroPad(d[5], 1) \o <<":">> \o ZeroPad(d[6], 1)

\* datetime.isoformat(): YYYY-MM-DDTHH:MM:SS
IsoFormat(d) ==
    ZeroPad(d[1], 4) \o <<"-">> \o ZeroPad(d[2], 2) \o <<"-">> \o ZeroPad(d[3], 2) \o <<"T">>
    \o ZeroPad(d[4], 2) \o <<":">> \o ZeroPad(d[5], 2) \o <<":">> \o ZeroPad(d[6], 2)

\* datetime(*published_parsed[:6]) raises ValueError
DateRejected(d) ==
    \/ d[1] < 1 \/ d[1] > 9999 \/ d[2] < 1 \/ d[2] > 12 \/ d[3] < 1 \/ d[3] > 31
    \/ d[4] > 23 \/ d[5] > 59 \/ d[6] > 59

\* ord(c) for the characters of an ISO date
Ord(c) ==
    CASE c = "-" -> 45 [] c = "0" -> 48 [] c = "1" -> 49 [] c = "2" -> 50
      [] c = "3" -> 51 [] c = "4" -> 52 [] c = "5" -> 53 [] c = "6" -> 54
      [] c = "7" -> 55 [] c = "8" -> 56 [] c = "9" -> 57 [] c = ":" -> 58
      [] c = "T" -> 84

\* a < b on Python strings
StrLess(a, b) ==
    LET n == IF Len(a) < Len(b) THEN Len(a) ELSE Len(b)
    IN  IF \A i \in 1..n : a[i] = b[i]
        THEN Len(a) < Len(b)
        ELSE LET d == CHOOSE i \in 1..n : a[i] # b[i] /\ \A j \in 1..(i - 1) : a[j] = b[j]
             IN  Ord(a[d]) < Ord(b[d])

\* the job dict built from entry number link of a source; has_date is
\* FALSE when published_date is None
MakeJob(name, link, date) ==
    [source |-> name, link |-> link,
     has_date |-> date # NoDate,
     published_date |-> IF date # NoDate THEN IsoFormat(date) ELSE <<>>]

RECURSIVE EntryJobs(_, _, _)
\* the loop over the entries from number link on: an entry whose date is
\* rejected is logged and skipped
EntryJobs(name, entries, link) ==
    IF link > Len(entries) THEN <<>>
    ELSE IF entries[link] # NoDate /\ DateRejected(entries[link])
         THEN EntryJobs(name, entries, link + 1)
         ELSE <<MakeJob(name, link, entries[link])>> \o EntryJobs(name, entries, link + 1)

\* the jobs one source contributes: none when fetching raises
SourceJobs(name, feed) ==
    IF feed.raises THEN <<>>
    ELSE EntryJobs(name,
                   SubSeq(feed.entries, 1,
                          IF Len(feed.entries) < FeedLimit THEN Len(feed.entries) ELSE FeedLimit),
                   1)

\* key=lambda x: x.get('published_date') or ''
SortKey(job) == IF job.has_date THEN job.published_date ELSE <<>>

\* x put into a list sorted by descending key, after the jobs whose key is
\* not smaller (list.sort is stable)
InsertDescending(sorted, x) ==
    LET before == {i \in 1..Len(sorted) : ~StrLess(SortKey(sorted[i]), SortKey(x))}
        p == IF before = {} THEN 0 ELSE CHOOSE i \in before : \A j \in before : j <= i
    IN  SubSeq(sorted, 1, p) \o <<x>> \o SubSeq(sorted, p + 1, Len(sorted))

RECURSIVE SortNewestFirst(_)
\* jobs.sort(key=..., reverse=True)
SortNewestFirst(jobs) ==
    IF Len(jobs) = 0 THEN <<>>
    ELSE InsertDescending(SortNewestFirst(SubSeq(jobs, 1, Len(jobs) - 1)), jobs[Len(jobs)])

\* variant of GatherJobs in which a failing fetch discards every job
GatherJobs_AbortOnFailure(src, f) ==
    IF (src \in {"remotive", "all"} /\ f.remotive.raises)
       \/ (src \in {"wwremote", "all"} /\ f.wwremote.raises)
    THEN <<>>
    ELSE (IF src \in {"remotive", "all"} THEN SourceJobs("Remotive", f.remotive) ELSE <<>>)
         \o (IF src \in {"wwremote", "all"}
             THEN SourceJobs("We Work Remotely", f.wwremote) ELSE <<>>)

\* the jobs gathered from the requested sources, Remotive first
GatherJobs(src, f) ==
    (IF src \in {"remotive", "all"} THEN SourceJobs("Remotive", f.remotive) ELSE <<>>)
    \o (IF src \in {"wwremote", "all"} THEN SourceJobs("We Work Remotely", f.wwremote) ELSE <<>>)

\* variant of JobsResponse without the "if not jobs" branch
JobsResponse_EmptySuccess(src, f) ==
    LET jobs == GatherJobs(src, f)
    IN  [status |-> 200,
         body |-> [kind |-> "jobs", success |-> TRUE, count |-> Len(jobs),
                   source |-> src, jobs |-> SortNewestFirst(jobs)]]

\* the response of get_remote_jobs
JobsResponse(src, f) ==
    LET jobs == GatherJobs(src, f)
    IN  IF Len(jobs) = 0
        THEN [status |-> 404,
              body |-> [kind |-> "jobs", success |-> FALSE,
                        error |-> "No jobs found from any source", jobs |-> <<>>]]
        ELSE [status |-> 200,
              body |-> [kind |-> "jobs", success |-> TRUE, count |-> Len(jobs),
                        source |-> src, jobs |-> SortNewestFirst(jobs)]]

Sources == {"remotive", "wwremote", "all", "indeed"}

GetRemoteJobs ==
    /\ pc = "idle"
    /\ \E src \in Sources :
       \E fr \in (IF src \in {"remotive", "all"} THEN Feeds ELSE {NotFetched}),
          fw \in (IF src \in {"wwremote", "all"} THEN Feeds ELSE {NotFetched}) :
          /\ route' = "jobs"
          /\ source' = src
          /\ feeds' = [remotive |-> fr, wwremote |-> fw]
          /\ response' = JobsResponse(src, feeds')
          /\ pc' = "done"
    /\ UNCHANGED <<GEMINI_API_KEY, resume, calls, replies, cover_letter, questions_text,
                   questions_list, qa_pairs, escaped, in_shape, in_fence, in_close,
                   in_items>>

(***************************************************************************)
(* The server handling one request.  GEMINI_API_KEY is read from the       *)
(* environment once, at start-up.                                          *)
(***************************************************************************)
Init ==
    /\ Idle
    /\ GEMINI_API_KEY \in BOOLEAN
    /\ pc = "idle"
    /\ questions_text = <<>>
    /\ in_shape = "none"
    /\ in_fence = "none"
    /\ in_close = FALSE
    /\ in_items = <<>>

Next ==
    \/ Index
    \/ GenerateProposal
    \/ AppValidate
    \/ AppCover
    \/ AppQuestions
    \/ AppAnswer
    \/ GetRemoteJobs
    \/ OauthCallback

Spec == Init /\ [][Next]_vars

(***************************************************************************)
(* Properties of the generation endpoints.                                 *)
(***************************************************************************)
\* C1: without GEMINI_API_KEY, a request to /api/generate-proposal or
\* /api/generate-application never reaches generate_content and ends with
\* HTTP 400 and the configuration-error message.
C1_MissingKeyRejected ==
    (~GEMINI_API_KEY /\ route \in {"proposal", "application"})
        => /\ calls = <<>>
           /\ pc = "done"
           /\ response = ErrorResponse(400, KeyMissing)

C1_Witness ==
    /\ ~GEMINI_API_KEY
    /\ route = "application"
    /\ pc = "done"
    /\ response.status = 400
    /\ calls = <<>>

\* the answers of the request so far agree with the replies of the answer
\* calls: the fallback sentence for a reply without text, else the reply
AnswersFollowReplies ==
    \A i \in 1..Len(qa_pairs) :
        qa_pairs[i].answer = IF NoText(replies[i + 2])
                             THEN FallbackAnswer
                             ELSE Strip(replies[i + 2].text)

\* C4: once the cover letter and the questions exist, no failing answer
\* call (no text, or a raised provider error) fails the request: it ends
\* with success, a failed answer being the fallback sentence and the other
\* answers what the model replied.
C4_AnswerFailureNeverFatal ==
    (route = "application" /\ pc = "done" /\ Len(calls) > 2)
        => /\ response.status = 200
           /\ response.body.questions = qa_pairs
           /\ AnswersFollowReplies

\* C5: every handler ends with a response of its own; no exception leaves
\* a handler.
C5_NoExceptionEscapes ==
    pc = "done" => (~escaped /\ response # NoResponse)

\* the calls of an application request are the cover-letter call, the
\* questions call, then the answer calls for the capped questions in order
CallsInOrder ==
    \A k \in 1..Len(calls) :
        /\ k = 1 => calls[k] = Prompt("cover", <<>>)
        /\ k = 2 => calls[k] = Prompt("questions", <<>>)
        /\ k > 2 => /\ k - 2 <= Len(Capped(questions_list))
                    /\ calls[k] = Prompt("answer", Capped(questions_list)[k - 2])

\* the key and resume checks have passed before any call
ValidatedBeforeCalls == Len(calls) > 0 => (GEMINI_API_KEY /\ resume # <<>>)

\* no two calls of the request carry the same prompt
NoPromptSentTwice == \A i, j \in 1..Len(calls) : i # j => calls[i] # calls[j]

\* an error response ends the request
ErrorEndsRequest == response.status >= 400 => pc = "done"

\* C9 as stated: calls in order, validation first, no prompt sent twice,
\* nothing after an error response.
C9_OrderedCallsNoRepeat ==
    route = "application"
        => (CallsInOrder /\ ValidatedBeforeCalls /\ NoPromptSentTwice /\ ErrorEndsRequest)

\* C9 amended: calls in order, validation first, one call per position (a
\* prompt repeats only where the capped question list repeats a question),
\* and no call once an error response is decided.
C9_OrderedCallsNoRetry ==
    /\ [](route = "application"
            => /\ CallsInOrder
               /\ ValidatedBeforeCalls
               /\ ErrorEndsRequest
               /\ \A i, j \in 1..Len(calls) :
                     (i < j /\ calls[i] = calls[j])
                        => /\ i > 2
                           /\ Capped(questions_list)[i - 2] = Capped(questions_list)[j - 2])
    /\ [][(route = "application" /\ response.status >= 400) => calls' = calls]_vars

C9_Witness ==
    /\ route = "application"
    /\ pc = "done"
    /\ response.status = 200
    /\ Len(calls) = 2 + MaxQuestions
    /\ \E i, j \in 1..Len(calls) : i # j /\ calls[i] = calls[j]

\* C10: a success response of /api/generate-application holds 3 to 5
\* question/answer pairs, the first min(5, n) sanitized questions in order,
\* every answer non-empty, after at most 7 calls.
C10_ThreeToFiveAnsweredPairs ==
    (route = "application" /\ response.status = 200)
        => LET pairs == response.body.questions
           IN  /\ Len(pairs) >= MinQuestions
               /\ Len(pairs) <= MaxQuestions
               /\ Len(pairs) = Len(Capped(questions_list))
               /\ \A i \in 1..Len(pairs) :
                     /\ pairs[i].question = questions_list[i]
                     /\ pairs[i].answer # <<>>
               /\ Len(calls) <= 2 + MaxQuestions

(***************************************************************************)
(* Properties of the question sanitizer.                                   *)
(***************************************************************************)
\* the texts of the string entries of items that are longer than 10
LongStrings(items) ==
    LET kept == SelectSeq(items, LAMBDA v : v.isstr /\ Len(v.text) > MinQuestionLen)
    IN  [i \in 1..Len(kept) |-> kept[i].text]

\* the stripped texts of the string entries of items that are longer than
\* 10 once stripped
LongStrippedStrings(items) ==
    LET kept == SelectSeq(items, LAMBDA v : v.isstr /\ Len(Strip(v.text)) > MinQuestionLen)
    IN  [i \in 1..Len(kept) |-> Strip(kept[i].text)]

FencedArray == pc = "parsed" /\ in_shape = "array" /\ in_fence # "none"

\* C2 as stated: for a fenced JSON array the questions are the string
\* entries of the array longer than 10 characters.
C2_FencedArrayFiltered ==
    FencedArray => questions_list = LongStrings(in_items)

\* C2 amended: for a fenced JSON array the questions are the string
\* entries stripped of surrounding whitespace and longer than 10 characters
\* once stripped, when at least 3 remain; else the fallback questions.
C2_FencedArrayStrippedOrFallback ==
    FencedArray
        => questions_list = IF Len(LongStrippedStrings(in_items)) < MinQuestions
                            THEN FallbackQuestions
                            ELSE LongStrippedStrings(in_items)

C2_Witness ==
    /\ FencedArray
    /\ questions_list # FallbackQuestions
    /\ Len(questions_list) < Len(in_items)
    /\ \E i \in 1..Len(in_items) : in_items[i].isstr /\ Strip(in_items[i].text) # in_items[i].text

\* a response that is not a JSON array: numbered lines, or an array that
\* json.loads rejects
NotJson == pc = "parsed" /\ (in_shape = "lines" \/ (in_shape = "badarray" /\ Len(in_items) > 0))

\* the lines of the response that survive filtering: longer than 10 once
\* the marker characters are stripped, and not a json token line
ValidLines ==
    LET raw == Split(RemoveFences(questions_text), "\n")
        lines == [i \in 1..Len(raw) |-> StripChars(raw[i], MarkerChars)]
    IN  SelectSeq(lines, LAMBDA q : Len(q) > MinQuestionLen
                                    /\ SubSeq(Lower(q), 1, 4) # <<"j", "s", "o", "n">>)

\* C3 as stated: for a response that is not JSON, the fallback questions
\* when fewer than 3 valid lines survive, else the surviving lines in order.
C3_LinesOrFallback ==
    NotJson => questions_list = IF Len(ValidLines) < MinQuestions
                                THEN FallbackQuestions
                                ELSE ValidLines

\* the entries of a numbered list that survive the line filter of the code:
\* marker characters stripped from both ends, longer than 10, not starting
\* with json in any letter case
SurvivingEntries(items) ==
    LET lines == [i \in 1..Len(items) |-> StripChars(items[i].text, MarkerChars)]
    IN  SelectSeq(lines, LAMBDA q : Len(q) > MinQuestionLen
                                    /\ SubSeq(Lower(q), 1, 4) # <<"j", "s", "o", "n">>)

\* C3 amended: a bracket-delimited response that json.loads rejects gives
\* the fallback questions whatever its lines; a response that is not
\* bracket-delimited gives the fallback questions when fewer than 3 lines
\* survive, else the surviving lines in order.
C3_LinesOrFallbackUnlessBracketed ==
    NotJson
        => questions_list =
              IF in_shape = "badarray" \/ Len(SurvivingEntries(in_items)) < MinQuestions
              THEN FallbackQuestions
              ELSE SurvivingEntries(in_items)

C3_Witness ==
    /\ NotJson
    /\ in_shape = "lines"
    /\ questions_list # FallbackQuestions
    /\ Len(questions_list) < Len(in_items)
    /\ \E i \in 1..Len(in_items) : in_items[i] = SampleItems[4]

(***************************************************************************)
(* Properties of GET /api/jobs.                                            *)
(***************************************************************************)
JobsDone == route = "jobs" /\ pc = "done"

Requested(name) ==
    \/ source = "all"
    \/ (name = "remotive" /\ source = "remotive")
    \/ (name = "wwremote" /\ source = "wwremote")

\* the entries of a fetched feed that become jobs: the first 15 whose date
\* is absent or accepted
Usable(feed) ==
    IF feed.raises THEN {}
    ELSE {i \in 1..Len(feed.entries) : i <= FeedLimit /\ feed.entries[i] # BadDate}

\* the links of the jobs of one source in the response
LinksFrom(name) ==
    {response.body.jobs[i].link :
        i \in {k \in 1..Len(response.body.jobs) : response.body.jobs[k].source = name}}

\* the response is a success holding exactly the usable entries of the
\* two feeds, each once
SuccessWith(remotive, wwremote) ==
    /\ response.status = 200
    /\ response.body.success
    /\ LinksFrom("Remotive") = remotive
    /\ LinksFrom("We Work Remotely") = wwremote
    /\ Len(response.body.jobs) = Cardinality(remotive) + Cardinality(wwremote)
    /\ response.body.count = Len(response.body.jobs)

NotFound ==
    /\ response.status = 404
    /\ ~response.body.success
    /\ response.body.jobs = <<>>

\* C6: a source whose fetch fails contributes no job and the request goes
\* on: with a job from the other requested source the response is a
\* success holding exactly that source's jobs; the not-found response is
\* given exactly when no requested source yields a job.
C6_FailedSourceNotFatal ==
    JobsDone
        => LET r == IF Requested("remotive") THEN Usable(feeds.remotive) ELSE {}
               w == IF Requested("wwremote") THEN Usable(feeds.wwremote) ELSE {}
           IN  IF r = {} /\ w = {} THEN NotFound ELSE SuccessWith(r, w)

C6_Witness ==
    /\ JobsDone
    /\ source = "all"
    /\ feeds.remotive.raises
    /\ Usable(feeds.wwremote) # {}
    /\ response.status = 200
    /\ LinksFrom("Remotive") = {}

\* every requested feed was fetched and holds no entry
AllFeedsEmpty ==
    /\ Requested("remotive") => (~feeds.remotive.raises /\ feeds.remotive.entries = <<>>)
    /\ Requested("wwremote") => (~feeds.wwremote.raises /\ feeds.wwremote.entries = <<>>)

\* C7: when every requested feed has zero entries the response is 404 with
\* success false and an empty job list; no success response has count 0.
C7_EmptyFeedsNotFound ==
    JobsDone
        => /\ AllFeedsEmpty => NotFound
           /\ response.status = 200 => response.body.count > 0

C7_Witness ==
    /\ JobsDone
    /\ source = "all"
    /\ AllFeedsEmpty
    /\ response.status = 404

\* the published_parsed value of the entry a job was built from
DateOf(job) ==
    IF job.source = "Remotive"
    THEN feeds.remotive.entries[job.link]
    ELSE feeds.wwremote.entries[job.link]

\* a is an earlier time than b
Earlier(a, b) ==
    \E k \in 1..6 : a[k] < b[k] /\ \A m \in 1..(k - 1) : a[m] = b[m]

\* C8: a success response for source=all lists the jobs newest first, and
\* every job without a date (published_date null) after every job with one.
C8_NewestFirstUndatedLast ==
    (JobsDone /\ source = "all" /\ response.status = 200)
        => LET jobs == response.body.jobs
           IN  \A i, j \in 1..Len(jobs) :
                  i < j => /\ jobs[i].has_date = (DateOf(jobs[i]) # NoDate)
                           /\ ~jobs[i].has_date => ~jobs[j].has_date
                           /\ (jobs[i].has_date /\ jobs[j].has_date)
                                 => ~Earlier(DateOf(jobs[i]), DateOf(jobs[j]))

C8_Witness ==
    /\ JobsDone
    /\ source = "all"
    /\ response.status = 200
    /\ Len(response.body.jobs) >= 3
    /\ response.body.jobs[1].source = "We Work Remotely"
    /\ response.body.jobs[1].has_date
    /\ \E i \in 2..Len(response.body.jobs) :
          /\ response.body.jobs[i].source = "Remotive"
          /\ response.body.jobs[i].has_date
          /\ Earlier(DateOf(response.body.jobs[i]), DateOf(response.body.jobs[1]))
    /\ ~response.body.jobs[Len(response.body.jobs)].has_date
====
